---- MODULE Spec2Model ----
(***************************************************************************)
(* A model of xadk/bucketclient: the session-authenticated request         *)
(* pipeline (api.go, wrapper.go) and the paginated, cached seeker          *)
(* (seeker.go).                                                            *)
(*                                                                         *)
(* Go values are modelled as follows.                                      *)
(*   - time.Time is an integer; the zero time.Time is 0 and the clock      *)
(*     `now` starts at 1.                                                  *)
(*   - an error is a record [kind, text]; the nil error is NoErr.          *)
(*   - a decoded JSON value (interface{}) is a record [kind, items, bad,   *)
(*     obj]: its JSON type, an array's items, whether the array ends in   *)
(*     an element of the wrong type, an object's members.                  *)
(*   - a decimal string made by fmt.Sprintf("%d", n) is a sequence of      *)
(*     one-character strings.                                              *)
(*   - url.Values is a record [isNil, m] with m a function from keys to    *)
(*     the single value url.Values.Set stores.                             *)
(*   - a map[int]T is a function whose DOMAIN is the set of keys.          *)
(*   - a goroutine inside a seeker method is a record [pc, q, result,      *)
(*     read]: the statement it is about to run and its local variables;    *)
(*     a sync.Mutex is the number of the goroutine holding it, or 0.       *)
(***************************************************************************)
EXTENDS Integers, Sequences, FiniteSets, TLC

VARIABLES
    now,            \* the wall clock read by time.Now()
    session,        \* BucketDB.session  (wrapper.go:152), without its User
    traceback,      \* BucketDB.traceback (wrapper.go:155)
    limit,          \* seeker.limit
    offset,         \* seeker.offset
    cache,          \* seeker.cache
    params,         \* seeker.params
    lastAccessed,   \* seeker.lastAccessed
    lastFetched,    \* seeker.lastFetched
    last,           \* observation of the latest step: the call, what it returned and sent
    mu,             \* seeker.mu: 0 when unlocked, else the goroutine holding it
    threads         \* the goroutines calling into one seeker: where each is, and its locals

dbVars     == <<session, traceback>>
seekerVars == <<limit, offset, cache, params, lastAccessed, lastFetched>>
threadVars == <<mu, threads>>
vars       == <<now, session, traceback, limit, offset, cache, params,
                lastAccessed, lastFetched, last, mu, threads>>

(***************************************************************************)
(* Bounds of the model.                                                    *)
(***************************************************************************)
MaxTime   == 3      \* the clock runs from 1 to MaxTime
MaxOffset == 2      \* the remote collection holds no item past this offset
MaxItems  == 2      \* the longest page the server returns
MaxCache  == 1      \* no fetch is issued once the cache holds this many keys
SessionLife == 1    \* lifetime the server gives a fresh session
NumThreads == 2     \* goroutines calling into one seeker at once

(***************************************************************************)
(* Errors.                                                                 *)
(***************************************************************************)
NoErr == [kind |-> "nil", text |-> ""]

NewRequestErr  == [kind |-> "TransportError", text |-> "http.NewRequest"]
DoErr          == [kind |-> "TransportError", text |-> "client.Do"]
ReadAllErr     == [kind |-> "TransportError", text |-> "io.ReadAll"]
EnvelopeErr    == [kind |-> "DecodeError",    text |-> "envelope"]
PayloadErr     == [kind |-> "DecodeError",    text |-> "payload"]
\* api.go:73  fmt.Errorf("failed: %s (%s)", res.Msg, res.Err)
FailedErr      == [kind |-> "ServerError",    text |-> "failed: %s (%s)"]
\* api.go:76  fmt.Errorf("%s (err: %s)", res.Msg, res.Err)
SoftErr        == [kind |-> "ServerError",    text |-> "%s (err: %s)"]
\* seeker.go:89  errors.New("no more data to load")
ExhaustedErr   == [kind |-> "Exhausted",      text |-> "no more data to load"]
\* seeker.go:120 integer divide by zero when s.limit = 0
DivideErr      == [kind |-> "panic",          text |-> "integer divide by zero"]

(***************************************************************************)
(* JSON values carried in the envelope's data field.                       *)
(***************************************************************************)
\* One member of a JSON object: absent, of the wrong JSON type, or a value.
Absent(zero) == [st |-> "absent", v |-> zero]
Wrong(zero)  == [st |-> "wrong",  v |-> zero]
Value(x)     == [st |-> "ok",     v |-> x]

NoObj == [token |-> Absent(""), issuedAt |-> Absent(0),
          subject |-> Absent(0), expiry |-> Absent(0)]

JNull         == [kind |-> "null",   items |-> <<>>, bad |-> FALSE, obj |-> NoObj]
JString       == [kind |-> "string", items |-> <<>>, bad |-> FALSE, obj |-> NoObj]
JArray(w)     == [kind |-> "array",  items |-> w,    bad |-> FALSE, obj |-> NoObj]
\* an array whose last element is not a JSON object
JBadArray(w)  == [kind |-> "array",  items |-> w,    bad |-> TRUE,  obj |-> NoObj]
JObject(o)    == [kind |-> "object", items |-> <<>>, bad |-> FALSE, obj |-> o]

\* wrapper.go:64-70  SessionData, and its zero value (NewBucketDB, wrapper.go:503)
SessionData(tok, iss, sub, exp) ==
    [Token |-> tok, IssuedAt |-> iss, Subject |-> sub, Expiry |-> exp]
EmptySession == SessionData("", 0, 0, 0)

\* encoding/json into one struct field: an absent member leaves the field,
\* a member of the wrong type is skipped (and reported), a value is stored.
DecodeField(old, f) == IF f.st = "ok" THEN f.v ELSE old

\* json.Unmarshal(data, &db.session)  (wrapper.go:186)
UnmarshalSession(data, s) ==
    CASE data.kind = "null" ->
            [session |-> s, err |-> NoErr]
      [] data.kind = "object" ->
            [session |-> SessionData(DecodeField(s.Token, data.obj.token),
                                     DecodeField(s.IssuedAt, data.obj.issuedAt),
                                     DecodeField(s.Subject, data.obj.subject),
                                     DecodeField(s.Expiry, data.obj.expiry)),
             err |-> IF \/ data.obj.token.st = "wrong"
                        \/ data.obj.issuedAt.st = "wrong"
                        \/ data.obj.subject.st = "wrong"
                        \/ data.obj.expiry.st = "wrong"
                     THEN PayloadErr ELSE NoErr]
      [] OTHER ->
            [session |-> s, err |-> PayloadErr]

\* json.Unmarshal(data, &result) with result a nil []Bucket or []Object
\* (seeker.go:111,129): null leaves it nil; an array fills it, an element of
\* the wrong type staying a zero item (0) and being reported.
UnmarshalItems(data) ==
    CASE data.kind = "null"  -> [result |-> <<>>, err |-> NoErr]
      [] data.kind = "array" ->
            [result |-> IF data.bad THEN Append(data.items, 0) ELSE data.items,
             err |-> IF data.bad THEN PayloadErr ELSE NoErr]
      [] OTHER -> [result |-> <<>>, err |-> PayloadErr]

(***************************************************************************)
(* The transport: what one HTTP exchange can produce.                      *)
(***************************************************************************)
Response(t, success, err, data) ==
    [t |-> t, success |-> success, err |-> err, data |-> data]

\* http.NewRequest fails, client.Do fails, io.ReadAll fails, the body is not
\* a JSON envelope
Faults == { Response(t, FALSE, "", JNull) :
              t \in {"newrequest", "do", "readall", "notjson"} }
Envelope(success, err, data) == Response("envelope", success, err, data)

(***************************************************************************)
(* api.go                                                                  *)
(***************************************************************************)
METHOD_GET    == "GET"
METHOD_POST   == "POST"
METHOD_PUT    == "PUT"
METHOD_DELETE == "DELETE"

\* The value of an expression computed once: the element of a singleton
Only(singleton) == CHOOSE x \in singleton : TRUE

NilBody == "nil"
NilHeaders == "nil"

\* The request handed to client.Do (api.go:30-49), kept with the answer the
\* transport gave it
HttpRequest(db, method, endpoint, headers, body, resp) ==
    [method |-> method,
     endpoint |-> endpoint,
     contentType |-> IF headers # NilHeaders THEN headers
                     ELSE IF body # NilBody THEN "application/json" ELSE "",
     authorization |-> IF db.session.Token # ""
                       THEN <<"Bearer", db.session.Token>> ELSE <<>>,
     answer |-> resp]

\* Variant of EnvelopeResult: the err check made before the success check
EnvelopeResult_ErrFirst(res) ==
    IF res.err # "" THEN [data |-> res.data, err |-> SoftErr]
    ELSE IF ~res.success THEN [data |-> res.data, err |-> FailedErr]
    ELSE [data |-> res.data, err |-> NoErr]

\* The envelope checks (api.go:69-80): data is always re-serialized and
\* returned, the error depends on success first and on err second.
EnvelopeResult(res) ==
    IF ~res.success THEN [data |-> res.data, err |-> FailedErr]
    ELSE IF res.err # "" THEN [data |-> res.data, err |-> SoftErr]
    ELSE [data |-> res.data, err |-> NoErr]

\* func (db BucketDB) apiV1RequestGeneric  (api.go:20-81), resp being what
\* the transport produces for this exchange.  sent is the sequence of
\* requests handed to client.Do.
apiV1RequestGeneric(db, method, endpoint, headers, body, resp) ==
    LET req == HttpRequest(db, method, endpoint, headers, body, resp) IN
    CASE resp.t = "newrequest" -> [data |-> JNull, err |-> NewRequestErr, sent |-> <<>>]
      [] resp.t = "do"         -> [data |-> JNull, err |-> DoErr, sent |-> <<req>>]
      [] resp.t = "readall"    -> [data |-> JNull, err |-> ReadAllErr, sent |-> <<req>>]
      [] resp.t = "notjson"    -> [data |-> JNull, err |-> EnvelopeErr, sent |-> <<req>>]
      [] OTHER                 ->
            Only({ [data |-> e.data, err |-> e.err, sent |-> <<req>>] :
                   e \in {EnvelopeResult(resp)} })

(***************************************************************************)
(* wrapper.go                                                              *)
(***************************************************************************)
\* Variant of IsValidSession: a session still valid at its expiry instant
IsValidSession_Inclusive(db, t) == t <= db.session.Expiry

\* func (db *BucketDB) IsValidSession  (wrapper.go:168-170)
IsValidSession(db, t) == t < db.session.Expiry

\* An empty url.Values, and an endpoint with its encoded query
NoValues == [k \in {} |-> <<>>]
SessionEndpoint == [path |-> "/api/v1/session", query |-> NoValues]

\* Variant of UpdateSession: the returned data decoded into the session
\* whatever the error of the call
UpdateSession_IgnoreErr(db, resp) ==
    Only({ Only({ [db |-> [db EXCEPT !.session = u.session],
                   err |-> IF g.err # NoErr THEN g.err ELSE u.err,
                   sent |-> g.sent] :
                  u \in {UnmarshalSession(g.data, db.session)} }) :
           g \in {apiV1RequestGeneric(db, METHOD_POST, SessionEndpoint,
                                      NilHeaders, "credentials", resp)} })

\* func (db *BucketDB) UpdateSession  (wrapper.go:172-187): the BucketDB the
\* receiver points to after the call, the error, and the requests sent.
UpdateSession(db, resp) ==
    Only({ IF g.err # NoErr
           THEN [db |-> db, err |-> g.err, sent |-> g.sent]
           ELSE Only({ [db |-> [db EXCEPT !.session = u.session],
                        err |-> u.err, sent |-> g.sent] :
                       u \in {UnmarshalSession(g.data, db.session)} }) :
           g \in {apiV1RequestGeneric(db, METHOD_POST, SessionEndpoint,
                                      NilHeaders, "credentials", resp)} })

\* func (db BucketDB) apiV1Request  (api.go:83-95).  The receiver is a copy
\* of the caller's BucketDB: UpdateSession acts on that copy, and the copy is
\* what the caller's request is sent with.  r1 answers the renewal, r2 the
\* caller's request.
apiV1Request(db, t, method, endpoint, headers, body, r1, r2) ==
    IF ~IsValidSession(db, t)
    THEN Only({ IF u.err # NoErr
                THEN [data |-> JNull, err |-> u.err, sent |-> u.sent,
                      renewal |-> TRUE]
                ELSE Only({ [data |-> g.data, err |-> g.err,
                             sent |-> u.sent \o g.sent, renewal |-> TRUE] :
                            g \in {apiV1RequestGeneric(u.db, method, endpoint,
                                                       headers, body, r2)} }) :
                u \in {UpdateSession(db, r1)} })
    ELSE Only({ [data |-> g.data, err |-> g.err, sent |-> g.sent,
                 renewal |-> FALSE] :
                g \in {apiV1RequestGeneric(db, method, endpoint, headers,
                                           body, r2)} })

\* The BucketDB a *BucketDB points to
DB == [session |-> session, traceback |-> traceback]

(***************************************************************************)
(* seeker.go                                                               *)
(***************************************************************************)
\* fmt.Sprintf("%d", n): the decimal digits of n, a minus sign first
Digit(d) ==
    CASE d = 0 -> "0" [] d = 1 -> "1" [] d = 2 -> "2" [] d = 3 -> "3"
      [] d = 4 -> "4" [] d = 5 -> "5" [] d = 6 -> "6" [] d = 7 -> "7"
      [] d = 8 -> "8" [] d = 9 -> "9"

RECURSIVE Digits(_)
Digits(n) == IF n < 10 THEN <<Digit(n)>>
             ELSE Append(Digits(n \div 10), Digit(n % 10))

Sprintf_d(n) == IF n < 0 THEN <<"-">> \o Digits(-n) ELSE Digits(n)

\* Go's a % b for b # 0: the remainder has the sign of the dividend
Abs(n) == IF n < 0 THEN -n ELSE n
GoRem(a, b) == IF a < 0 THEN -((-a) % Abs(b)) ELSE a % Abs(b)

\* url.Values: nil, or a map; Set(key, value) on a map
NilValues    == [isNil |-> TRUE,  m |-> NoValues]
MakeValues(m) == [isNil |-> FALSE, m |-> m]
ValuesSet(v, key, value) ==
    [v EXCEPT !.m = [k \in DOMAIN v.m \cup {key} |->
                        IF k = key THEN value ELSE v.m[k]]]

\* s.cache[key] = value
MapStore(m, key, value) ==
    [k \in DOMAIN m \cup {key} |-> IF k = key THEN value ELSE m[k]]
EmptyCache == [k \in {} |-> <<>>]

ListEndpoint == "/api/v1/buckets"

\* Variant of WireLimit: the offset is subtracted whole, not modulo the limit
WireLimit_NoModulo(s) == Sprintf_d(s.limit - s.offset)

\* The limit and offset query values loadData sets (seeker.go:120-121)
WireLimit(s)  == Sprintf_d(s.limit - GoRem(s.offset, s.limit))
WireOffset(s) == Sprintf_d(s.offset)

\* The map loadData sets them on (seeker.go:114-117): a new one when s.params
\* is nil, else s.params itself
QueryValues(s) ==
    LET base == IF s.params.isNil THEN MakeValues(NoValues) ELSE s.params
    IN  ValuesSet(ValuesSet(base, "limit", WireLimit(s)), "offset", WireOffset(s))

\* Variant of CacheStore: the page stored under the offset after the advance
CacheStore_PostAdvanceKey(s, result) ==
    IF Len(result) > 0
    THEN MapStore(s.cache, s.offset + Len(result), result) ELSE s.cache

\* The seeker while loadData runs at time t with the query map q
\* (seeker.go:112-121): when s.params is not nil it is the map q itself
Fetching(s, t, q) ==
    [s EXCEPT !.lastFetched = t,
              !.params = IF s.params.isNil THEN s.params ELSE q]

\* The cache after loadData's store (seeker.go:134-138)
CacheStore(s, result) ==
    IF Len(result) > 0 THEN MapStore(s.cache, s.offset, result) ELSE s.cache

\* Variant of loadData: the decoded page stored before the decode error is
\* looked at
loadData_StoreBeforeCheck(s, db, t, r1, r2) ==
    IF s.limit = 0
    THEN [s |-> [s EXCEPT !.lastFetched = t], result |-> <<>>,
          err |-> DivideErr, sent |-> <<>>, renewal |-> FALSE]
    ELSE Only({ Only({
        IF a.err # NoErr
        THEN [s |-> Fetching(s, t, q), result |-> <<>>, err |-> a.err,
              sent |-> a.sent, renewal |-> a.renewal]
        ELSE Only({
            [s |-> [Fetching(s, t, q) EXCEPT !.cache = CacheStore(s, u.result)],
             result |-> u.result, err |-> u.err, sent |-> a.sent,
             renewal |-> a.renewal] :
            u \in {UnmarshalItems(a.data)} }) :
        a \in {apiV1Request(db, t, METHOD_GET,
                            [path |-> ListEndpoint, query |-> q.m],
                            NilHeaders, NilBody, r1, r2)} }) :
        q \in {QueryValues(s)} })

\* func (s *seeker[T]) loadData  (seeker.go:110-141), called at time t on the
\* BucketDB db; r1 and r2 are the transport's answers.  q is the map the
\* limit and offset are set on, a the result of the request, u the decoded
\* page.
loadData(s, db, t, r1, r2) ==
    IF s.limit = 0
    THEN [s |-> [s EXCEPT !.lastFetched = t], result |-> <<>>,
          err |-> DivideErr, sent |-> <<>>, renewal |-> FALSE]
    ELSE Only({ Only({
        IF a.err # NoErr
        THEN [s |-> Fetching(s, t, q), result |-> <<>>, err |-> a.err,
              sent |-> a.sent, renewal |-> a.renewal]
        ELSE Only({
            IF u.err # NoErr
            THEN [s |-> Fetching(s, t, q), result |-> u.result, err |-> u.err,
                  sent |-> a.sent, renewal |-> a.renewal]
            ELSE [s |-> [Fetching(s, t, q) EXCEPT
                            !.cache = CacheStore(s, u.result)],
                  result |-> u.result, err |-> NoErr, sent |-> a.sent,
                  renewal |-> a.renewal] :
            u \in {UnmarshalItems(a.data)} }) :
        a \in {apiV1Request(db, t, METHOD_GET,
                            [path |-> ListEndpoint, query |-> q.m],
                            NilHeaders, NilBody, r1, r2)} }) :
        q \in {QueryValues(s)} })

\* Variant of Advance: an empty page is remembered by moving offset on by one
\* item
Advance_PastEmptyWindow(l, n) ==
    IF l.err # NoErr
    THEN [s |-> l.s, data |-> l.result, err |-> l.err, sent |-> l.sent,
          renewal |-> l.renewal]
    ELSE IF Len(l.result) < 1
    THEN [s |-> [l.s EXCEPT !.offset = l.s.offset + 1],
          data |-> l.result, err |-> ExhaustedErr, sent |-> l.sent,
          renewal |-> l.renewal]
    ELSE [s |-> [l.s EXCEPT !.offset = l.s.offset + n],
          data |-> l.result, err |-> NoErr, sent |-> l.sent,
          renewal |-> l.renewal]

\* What Next does with the result l of loadData, advancing offset by n items
Advance(l, n) ==
    IF l.err # NoErr
    THEN [s |-> l.s, data |-> l.result, err |-> l.err, sent |-> l.sent,
          renewal |-> l.renewal]
    ELSE IF Len(l.result) < 1
    THEN [s |-> l.s, data |-> l.result, err |-> ExhaustedErr, sent |-> l.sent,
          renewal |-> l.renewal]
    ELSE [s |-> [l.s EXCEPT !.offset = l.s.offset + n],
          data |-> l.result, err |-> NoErr, sent |-> l.sent,
          renewal |-> l.renewal]

\* Variant of seekerNext: offset advanced by the limit sent, not by the
\* number of items returned
seekerNext_AdvanceByLimit(s, db, t, r1, r2) ==
    Only({ Advance(l, l.s.limit - GoRem(l.s.offset, l.s.limit)) :
           l \in {loadData(s, db, t, r1, r2)} })

\* func (s *seeker[T]) Next  (seeker.go:82-94)
seekerNext(s, db, t, r1, r2) ==
    Only({ Advance(l, Len(l.result)) : l \in {loadData(s, db, t, r1, r2)} })

\* Variant of seekerGetData: the cache is not looked at
seekerGetData_AlwaysFetch(s, db, t, r1, r2) ==
    seekerNext([s EXCEPT !.lastAccessed = t], db, t, r1, r2)

\* Variant of seekerGetData: a miss loads the page and leaves offset alone
seekerGetData_LoadOnly(s, db, t, r1, r2) ==
    IF s.offset \in DOMAIN s.cache
    THEN [s |-> [s EXCEPT !.lastAccessed = t], data |-> s.cache[s.offset],
          err |-> NoErr, sent |-> <<>>, renewal |-> FALSE]
    ELSE Only({ Advance(l, 0) :
                l \in {loadData([s EXCEPT !.lastAccessed = t], db, t, r1, r2)} })

\* func (s *seeker[T]) GetData  (seeker.go:97-107)
seekerGetData(s, db, t, r1, r2) ==
    IF s.offset \in DOMAIN s.cache
    THEN [s |-> [s EXCEPT !.lastAccessed = t], data |-> s.cache[s.offset],
          err |-> NoErr, sent |-> <<>>, renewal |-> FALSE]
    ELSE seekerNext([s EXCEPT !.lastAccessed = t], db, t, r1, r2)

\* The seeker a Seekable points to
S == [limit |-> limit, offset |-> offset, cache |-> cache, params |-> params,
      lastAccessed |-> lastAccessed, lastFetched |-> lastFetched]

(***************************************************************************)
(* The environment: the callers' arguments and the server's answers.       *)
(***************************************************************************)
Min(a, b) == IF a < b THEN a ELSE b

Items  == {1}
Tokens == {"t1", "t2"}
Page(n, v) == [i \in 1..n |-> v]
\* The pages a list endpoint may return for a fetch at offset o
Pages(o) == { Page(n, v) : n \in 0..Min(MaxItems, MaxOffset - o), v \in Items }

SeekChoices   == -1..MaxOffset
LimitChoices  == {-2, 0, 2}
ParamsChoices == {NilValues, MakeValues([k \in {"q"} |-> <<"x">>])}

\* Answers of a list endpoint to a fetch at offset o
ListAnswers(o) ==
    { Response("do", FALSE, "", JNull), Response("notjson", FALSE, "", JNull) }
    \cup { Envelope(TRUE, "", d) :
             d \in {JNull, JString, JBadArray(<<1>>)}
                   \cup { JArray(w) : w \in Pages(o) } }
    \cup { Envelope(FALSE, "", JNull),
           Envelope(FALSE, "denied", JArray(<<1>>)),
           Envelope(TRUE, "denied", JArray(<<1>>)) }

\* The session object a renewal at time t returns
SessionObject(tok, iss, sub, exp) ==
    JObject([token |-> tok, issuedAt |-> iss, subject |-> sub, expiry |-> exp])
FreshSession(t, tok) ==
    SessionObject(Value(tok), Value(t), Value(7), Value(t + SessionLife))

\* Answers of the session endpoint at time t while a seeker is driven
RenewalAnswers(t) ==
    { Response("do", FALSE, "", JNull),
      Envelope(FALSE, "denied", FreshSession(t, "t2")),
      Envelope(TRUE, "", FreshSession(t, "t1")) }

\* Answers of the session endpoint at time t, in full
SessionAnswers(t) ==
    Faults
    \cup { Envelope(FALSE, "", JNull),
           Envelope(FALSE, "denied", FreshSession(t, "t2")),
           Envelope(TRUE, "denied", FreshSession(t, "t2")) }
    \cup { Envelope(TRUE, "", d) :
             d \in { FreshSession(t, tok) : tok \in Tokens \cup {""} }
                   \cup { SessionObject(Value("t1"), Value(t), Value(7), Value(t)),
                          SessionObject(Value("t2"), Absent(0), Absent(0), Absent(0)),
                          SessionObject(Value("t2"), Value(t), Value(7), Wrong(0)),
                          JNull, JString, JArray(<<1>>) } }

\* Answers to a caller's own request
RequestAnswers ==
    Faults
    \cup { Envelope(su, e, JNull) : su \in BOOLEAN, e \in {"", "denied"} }
    \cup { Envelope(TRUE, "", JString), Envelope(FALSE, "denied", JString) }

\* An exchange that does not take place has no answer to draw
Unasked == Response("do", FALSE, "", JNull)
\* The renewal is asked for only by an expired session, the caller's request
\* is sent only after a renewal that did not fail
RenewalDrawn(A) == IF IsValidSession(DB, now) THEN {Unasked} ELSE A
FollowupDrawn(r1, A) ==
    IF IsValidSession(DB, now) \/ UpdateSession(DB, r1).err = NoErr
    THEN A ELSE {Unasked}

\* The callers' requests: a read without a body, a write with one
Calls == { [method |-> METHOD_GET, body |-> NilBody],
           [method |-> METHOD_PUT, body |-> "body"] }
UserEndpoint == [path |-> "/api/v1/users/@me", query |-> NoValues]

(***************************************************************************)
(* The state after NewBucketDB (wrapper.go:503-510) and newSeekable        *)
(* (seeker.go:144-154) with nil params.                                    *)
(***************************************************************************)
DefaultLimit == 10

Observation(op, data, payload, err, sent, renewal) ==
    [op |-> op, data |-> data, payload |-> payload, err |-> err,
     sent |-> sent, renewal |-> renewal]
Quiet(op) == Observation(op, <<>>, JNull, NoErr, <<>>, FALSE)

\* The goroutines sharing the seeker, none of them inside a call
Threads  == 1..NumThreads
Unlocked == 0
Idle     == [pc |-> "idle", q |-> NoValues, result |-> <<>>, read |-> 0]

Init ==
    /\ now = 1
    /\ session = EmptySession
    /\ traceback = <<>>
    /\ limit = DefaultLimit
    /\ offset = 0
    /\ cache = EmptyCache
    /\ params = NilValues
    /\ lastAccessed = 0
    /\ lastFetched = 0
    /\ last = Quiet("new")
    /\ mu = Unlocked
    /\ threads = [t \in Threads |-> Idle]

(***************************************************************************)
(* Actions.                                                                *)
(***************************************************************************)
\* Time passes between two calls
Tick ==
    /\ now < MaxTime
    /\ now' = now + 1
    /\ last' = Quiet("Tick")
    /\ UNCHANGED <<threadVars, dbVars, seekerVars>>

\* db.UpdateSession() called through the *BucketDB (wrapper.go:172, 471),
\* the session endpoint answering from A
CallUpdateSession(A) ==
    \E r \in A :
      \E u \in {UpdateSession(DB, r)} :
        /\ session' = u.db.session
        /\ traceback' = u.db.traceback
        /\ last' = Observation("UpdateSession", <<>>, JNull, u.err, u.sent, TRUE)
        /\ UNCHANGED <<threadVars, now, seekerVars>>

\* db.apiV1Request(method, endpoint, headers, body) called through the
\* *BucketDB, as every CRUD method of wrapper.go does (e.g. wrapper.go:195)
Request ==
    \E c \in Calls, r1 \in RenewalDrawn(SessionAnswers(now)) :
      \E r2 \in FollowupDrawn(r1, RequestAnswers) :
       \E a \in {apiV1Request(DB, now, c.method, UserEndpoint, NilHeaders,
                              c.body, r1, r2)} :
        /\ last' = Observation("Request", <<>>, a.data, a.err, a.sent, a.renewal)
        /\ UNCHANGED <<threadVars, now, dbVars, seekerVars>>

\* The seeker after an operation that returned the seeker record s
SeekerBecomes(s) ==
    /\ limit' = s.limit
    /\ offset' = s.offset
    /\ cache' = s.cache
    /\ params' = s.params
    /\ lastAccessed' = s.lastAccessed
    /\ lastFetched' = s.lastFetched

SetParams ==
    \E p \in ParamsChoices :
        /\ params' = p
        /\ last' = Quiet("SetParams")
        /\ UNCHANGED <<threadVars, now, dbVars, limit, offset, cache, lastAccessed, lastFetched>>

\* Variant of Seek: repositioning also discards the cached windows
Seek_DropsCache ==
    \E o \in SeekChoices :
        /\ offset' = o
        /\ cache' = EmptyCache
        /\ last' = Quiet("Seek")
        /\ UNCHANGED <<threadVars, now, dbVars, limit, params, lastAccessed, lastFetched>>

Seek ==
    \E o \in SeekChoices :
        /\ offset' = o
        /\ last' = Quiet("Seek")
        /\ UNCHANGED <<threadVars, now, dbVars, limit, cache, params, lastAccessed, lastFetched>>

Clear ==
    /\ cache' = EmptyCache
    /\ last' = Quiet("Clear")
    /\ UNCHANGED <<threadVars, now, dbVars, limit, offset, params, lastAccessed, lastFetched>>

SetLimit ==
    \E n \in LimitChoices :
        /\ limit' = n
        /\ last' = Quiet("SetLimit")
        /\ UNCHANGED <<threadVars, now, dbVars, offset, cache, params, lastAccessed, lastFetched>>

\* A fetch is issued while the cache has room for its page
HasRoom == offset \in DOMAIN cache \/ Cardinality(DOMAIN cache) < MaxCache

Next ==
    /\ HasRoom
    /\ \E r1 \in RenewalDrawn(RenewalAnswers(now)) :
       \E r2 \in FollowupDrawn(r1, ListAnswers(offset)) :
        \E n \in {seekerNext(S, DB, now, r1, r2)} :
        /\ SeekerBecomes(n.s)
        /\ last' = Observation("Next", n.data, JNull, n.err, n.sent, n.renewal)
        /\ UNCHANGED <<threadVars, now, dbVars>>

GetData ==
    /\ HasRoom
    /\ \E r1 \in RenewalDrawn(RenewalAnswers(now)) :
       \E r2 \in FollowupDrawn(r1, ListAnswers(offset)) :
        \E g \in {seekerGetData(S, DB, now, r1, r2)} :
        /\ SeekerBecomes(g.s)
        /\ last' = Observation("GetData", g.data, JNull, g.err, g.sent, g.renewal)
        /\ UNCHANGED <<threadVars, now, dbVars>>

\* A seeker driven by a single caller at one instant, on a BucketDB whose
\* session is also renewed directly
NextState ==
    \/ CallUpdateSession(RenewalAnswers(now))
    \/ SetParams
    \/ SetLimit
    \/ Seek
    \/ Clear
    \/ GetData
    \/ Next

Spec == Init /\ [][NextState]_vars

\* The request pipeline alone, the server answering in every way
PipelineStep ==
    \/ Tick
    \/ CallUpdateSession(SessionAnswers(now))
    \/ Request

SpecPipeline == Init /\ [][PipelineStep]_vars

(***************************************************************************)
(* Reading an observation.                                                 *)
(***************************************************************************)
\* strconv.Atoi of a decimal string, as the server reads a query value
DigitValue(c) ==
    CASE c = "0" -> 0 [] c = "1" -> 1 [] c = "2" -> 2 [] c = "3" -> 3
      [] c = "4" -> 4 [] c = "5" -> 5 [] c = "6" -> 6 [] c = "7" -> 7
      [] c = "8" -> 8 [] c = "9" -> 9

RECURSIVE Natural(_)
Natural(str) ==
    IF Len(str) = 0 THEN 0
    ELSE 10 * Natural(SubSeq(str, 1, Len(str) - 1)) + DigitValue(str[Len(str)])

Atoi(str) == IF str[1] = "-" THEN -Natural(Tail(str)) ELSE Natural(str)

IsListRequest(r)    == r.endpoint.path = ListEndpoint
IsSessionRequest(r) == r.endpoint = SessionEndpoint /\ r.method = METHOD_POST
IsCallerRequest(r)  == r.endpoint = UserEndpoint

ListRequests(obs)    == SelectSeq(obs.sent, IsListRequest)
SessionRequests(obs) == SelectSeq(obs.sent, IsSessionRequest)
CallerRequests(obs)  == SelectSeq(obs.sent, IsCallerRequest)

IsFetch(obs) == obs.op \in {"Next", "GetData"}

\* The ways a renewal fails before its payload is looked at
RenewalFailures == {DoErr, ReadAllErr, NewRequestErr, EnvelopeErr, FailedErr, SoftErr}

(***************************************************************************)
(* Several goroutines calling Next, GetData and Clear on one seeker that   *)
(* was built with nil params, with no synchronisation of their own.  Each  *)
(* step is one access to the seeker's shared fields or to its lock, so     *)
(* the interleavings are those of the unsynchronised reads and writes of   *)
(* s.offset and s.cache.  threads[t].pc is where goroutine t is:           *)
(*   idle             outside any call                                     *)
(*   getdata_lock     GetData, about to s.mu.Lock()       (seeker.go:99)   *)
(*   getdata_lookup   GetData, about to read s.cache      (seeker.go:100)  *)
(*   load_params      loadData, about to build the query  (seeker.go:112)  *)
(*   load_request     loadData, request and decode        (seeker.go:123)  *)
(*   load_lock        loadData, about to s.mu.Lock()      (seeker.go:135)  *)
(*   load_store       loadData, about to write s.cache    (seeker.go:137)  *)
(*   next_read        Next, about to read s.offset        (seeker.go:92)   *)
(*   next_write       Next, about to write s.offset       (seeker.go:92)   *)
(*   clear_reset      Clear, about to replace s.cache     (seeker.go:74)   *)
(***************************************************************************)
\* The page of the remote collection (items 1..MaxOffset, item i at offset
\* i-1) that starts at offset o and holds n items
Window(o, n) == [i \in 1..n |-> o + i]

\* Answers of the list endpoint to a goroutine's fetch at offset o: a fault,
\* or every item from o on (fewer than the limit asked for)
WindowAnswers(o) ==
    { Response("do", FALSE, "", JNull),
      Envelope(TRUE, "", JArray(Window(o, IF o < MaxOffset THEN MaxOffset - o ELSE 0))) }

\* Goroutine t moves to pc with the locals q, result and read
Becomes(t, pc, q, result, read) ==
    threads' = [threads EXCEPT ![t] =
                   [pc |-> pc, q |-> q, result |-> result, read |-> read]]
Returns(t) == threads' = [threads EXCEPT ![t] = Idle]
At(t, pc)  == threads[t].pc = pc

\* GetData is called: s.lastAccessed = time.Now()  (seeker.go:97-98)
GetData_Enter(t) ==
    /\ At(t, "idle")
    /\ lastAccessed' = now
    /\ Becomes(t, "getdata_lock", NoValues, <<>>, 0)
    /\ UNCHANGED <<now, dbVars, limit, offset, cache, params, lastFetched,
                   last, mu>>

\* s.mu.Lock() in GetData  (seeker.go:99)
GetData_Lock(t) ==
    /\ At(t, "getdata_lock")
    /\ mu = Unlocked
    /\ mu' = t
    /\ Becomes(t, "getdata_lookup", NoValues, <<>>, 0)
    /\ UNCHANGED <<now, dbVars, seekerVars, last>>

\* Variant of GetData_Lookup: the lock is not released before Next is called
GetData_Lookup_KeepsLockOnMiss(t) ==
    /\ At(t, "getdata_lookup")
    /\ IF offset \in DOMAIN cache
       THEN mu' = Unlocked /\ Returns(t)
       ELSE mu' = mu /\ Becomes(t, "load_params", NoValues, <<>>, 0)
    /\ UNCHANGED <<now, dbVars, seekerVars, last>>

\* The lookup of s.cache[s.offset] and the Unlock of either branch: a hit
\* returns the entry, a miss goes on to Next  (seeker.go:100-106)
GetData_Lookup(t) ==
    /\ At(t, "getdata_lookup")
    /\ mu' = Unlocked
    /\ IF offset \in DOMAIN cache
       THEN Returns(t)
       ELSE Becomes(t, "load_params", NoValues, <<>>, 0)
    /\ UNCHANGED <<now, dbVars, seekerVars, last>>

\* Next is called and calls loadData  (seeker.go:82-83)
Next_Enter(t) ==
    /\ At(t, "idle")
    /\ Becomes(t, "load_params", NoValues, <<>>, 0)
    /\ UNCHANGED <<now, dbVars, seekerVars, last, mu>>

\* loadData sets lastFetched and builds its query from s.limit and s.offset
\* (seeker.go:112-121); a zero limit panics in the division
loadData_Params(t) ==
    /\ At(t, "load_params")
    /\ limit # 0
    /\ lastFetched' = now
    /\ Becomes(t, "load_request", QueryValues(S).m, <<>>, 0)
    /\ UNCHANGED <<now, dbVars, limit, offset, cache, params, lastAccessed,
                   last, mu>>

\* The request with the query built, and the decode of its payload
\* (seeker.go:123-131); an error or an empty result returns through Next
\* (seeker.go:84-90), a non-empty result goes on to the cache
loadData_Request(t) ==
    /\ At(t, "load_request")
    /\ \E r1 \in RenewalDrawn(RenewalAnswers(now)) :
       \E r2 \in FollowupDrawn(r1, WindowAnswers(Atoi(threads[t].q["offset"]))) :
        \E a \in {apiV1Request(DB, now, METHOD_GET,
                               [path |-> ListEndpoint, query |-> threads[t].q],
                               NilHeaders, NilBody, r1, r2)} :
         \E u \in {UnmarshalItems(a.data)} :
            IF a.err = NoErr /\ u.err = NoErr /\ Len(u.result) > 0
            THEN Becomes(t, "load_lock", threads[t].q, u.result, 0)
            ELSE Returns(t)
    /\ UNCHANGED <<now, dbVars, seekerVars, last, mu>>

\* s.mu.Lock() in loadData  (seeker.go:135)
loadData_Lock(t) ==
    /\ At(t, "load_lock")
    /\ mu = Unlocked
    /\ mu' = t
    /\ Becomes(t, "load_store", threads[t].q, threads[t].result, 0)
    /\ UNCHANGED <<now, dbVars, seekerVars, last>>

\* s.cache[s.offset] = result, then the deferred Unlock as loadData returns
\* to Next  (seeker.go:136-140)
loadData_Store(t) ==
    /\ At(t, "load_store")
    /\ cache' = CacheStore(S, threads[t].result)
    /\ mu' = Unlocked
    /\ Becomes(t, "next_read", threads[t].q, threads[t].result, 0)
    /\ UNCHANGED <<now, dbVars, limit, offset, params, lastAccessed,
                   lastFetched, last>>

\* s.offset += len(data), the read  (seeker.go:92)
Next_ReadOffset(t) ==
    /\ At(t, "next_read")
    /\ Becomes(t, "next_write", threads[t].q, threads[t].result, offset)
    /\ UNCHANGED <<now, dbVars, seekerVars, last, mu>>

\* s.offset += len(data), the write; Next returns the page  (seeker.go:92-93)
Next_WriteOffset(t) ==
    /\ At(t, "next_write")
    /\ offset' = threads[t].read + Len(threads[t].result)
    /\ Returns(t)
    /\ UNCHANGED <<now, dbVars, limit, cache, params, lastAccessed,
                   lastFetched, last, mu>>

\* Clear is called  (seeker.go:73)
Clear_Enter(t) ==
    /\ At(t, "idle")
    /\ Becomes(t, "clear_reset", NoValues, <<>>, 0)
    /\ UNCHANGED <<now, dbVars, seekerVars, last, mu>>

\* s.cache = make(map[int]T)  (seeker.go:74)
Clear_Reset(t) ==
    /\ At(t, "clear_reset")
    /\ cache' = EmptyCache
    /\ Returns(t)
    /\ UNCHANGED <<now, dbVars, limit, offset, params, lastAccessed,
                   lastFetched, last, mu>>

ThreadStep ==
    \E t \in Threads :
        \/ GetData_Enter(t)
        \/ GetData_Lock(t)
        \/ GetData_Lookup(t)
        \/ Next_Enter(t)
        \/ loadData_Params(t)
        \/ loadData_Request(t)
        \/ loadData_Lock(t)
        \/ loadData_Store(t)
        \/ Next_ReadOffset(t)
        \/ Next_WriteOffset(t)
        \/ Clear_Enter(t)
        \/ Clear_Reset(t)

SpecThreads == Init /\ [][ThreadStep]_vars

(***************************************************************************)
(* C1  Cache hit: when the cache holds an entry at the current offset,     *)
(* GetData() sends no request, returns exactly that entry without error    *)
(* and leaves offset, limit and the cache as they were.                    *)
(***************************************************************************)
C1_CacheHit ==
    [][ (last'.op = "GetData" /\ offset \in DOMAIN cache) =>
            /\ last'.sent = <<>>
            /\ last'.err = NoErr
            /\ last'.data = cache[offset]
            /\ offset' = offset
            /\ limit' = limit
            /\ cache' = cache ]_vars

\* a hit on a one-item page cached under a window of DefaultLimit
C1_Witness ==
    /\ last.op = "GetData"
    /\ last.sent = <<>>
    /\ last.err = NoErr
    /\ offset \in DOMAIN cache
    /\ last.data = cache[offset]
    /\ Len(last.data) = 1
    /\ limit = DefaultLimit

(***************************************************************************)
(* C2  Advancement: a Next() that returns N >= 1 items without error       *)
(* leaves offset at O+N; a Next() whose fetch succeeds with no item        *)
(* returns the Exhausted error and leaves offset at O.                     *)
(***************************************************************************)
\* The page a successful list exchange of the observation carried
FetchedPage(obs) ==
    UnmarshalItems(ListRequests(obs)[Len(ListRequests(obs))].answer.data).result

FetchSucceeded(obs) ==
    /\ ListRequests(obs) # <<>>
    /\ LET a == ListRequests(obs)[Len(ListRequests(obs))].answer IN
        /\ a.t = "envelope" /\ a.success /\ a.err = ""
        /\ a.data.kind \in {"null", "array"} /\ ~a.data.bad

C2_Advancement ==
    [][ (last'.op = "Next" /\ FetchSucceeded(last')) =>
            /\ Len(FetchedPage(last')) >= 1 =>
                  /\ last'.err = NoErr
                  /\ last'.data = FetchedPage(last')
                  /\ offset' = offset + Len(FetchedPage(last'))
            /\ Len(FetchedPage(last')) = 0 =>
                  /\ last'.err = ExhaustedErr
                  /\ offset' = offset ]_vars

\* a Next() at offset 0 that returned two items
C2_Witness ==
    /\ last.op = "Next"
    /\ FetchSucceeded(last)
    /\ last.err = NoErr
    /\ Len(last.data) = 2
    /\ offset = 2

(***************************************************************************)
(* C3  Alignment: every fetch sends offset = O and limit = L - (O mod L),  *)
(* a value in [1, L], for every L set with SetLimit and every O reached    *)
(* with Seek or by advancing.                                              *)
(***************************************************************************)
C3_Alignment ==
    [][ IsFetch(last') =>
          \A i \in DOMAIN ListRequests(last') :
            LET q == ListRequests(last')[i].endpoint.query IN
            /\ Atoi(q["offset"]) = offset
            /\ Atoi(q["limit"]) \in 1..limit
            /\ Atoi(q["limit"]) = limit - (offset % limit) ]_vars

(***************************************************************************)
(* C4  Envelope precedence: for the envelope decoded from the answer to    *)
(* the caller's request, Request() returns the "failed" ServerError when   *)
(* success is false whatever err is, the soft ServerError when success is  *)
(* true and err is not empty, and the payload without error only when      *)
(* success is true and err is empty.                                       *)
(***************************************************************************)
C4_EnvelopePrecedence ==
    (last.op = "Request" /\ CallerRequests(last) # <<>>
        /\ CallerRequests(last)[1].answer.t = "envelope") =>
        LET res == CallerRequests(last)[1].answer IN
        /\ ~res.success => last.err = FailedErr
        /\ (res.success /\ res.err # "") => last.err = SoftErr
        /\ (res.success /\ res.err = "") =>
                (last.err = NoErr /\ last.payload = res.data)
        /\ last.err = NoErr => (res.success /\ res.err = "")

\* success=false with a non-empty err: the success check decides
C4_Witness ==
    /\ last.op = "Request"
    /\ CallerRequests(last) # <<>>
    /\ CallerRequests(last)[1].answer.t = "envelope"
    /\ ~CallerRequests(last)[1].answer.success
    /\ CallerRequests(last)[1].answer.err # ""
    /\ last.err = FailedErr

(***************************************************************************)
(* C5  Session gating: Request() calls the renewal exactly when the clock  *)
(* is not before the stored expiry (now = expiry is expired), and when     *)
(* the renewal fails it returns the renewal's error and the caller's       *)
(* request is never handed to the transport.                               *)
(***************************************************************************)
\* The renewal of the observation failed: it sent nothing, or was answered
\* by a fault, a failing envelope or a payload that is not a session
RenewalFailed(obs) ==
    /\ obs.renewal
    /\ \/ SessionRequests(obs) = <<>>
       \/ LET a == SessionRequests(obs)[1].answer IN
            \/ a.t # "envelope"
            \/ ~a.success
            \/ a.err # ""
            \/ a.data.kind \notin {"null", "object"}
            \/ \E f \in {"token", "issuedAt", "subject", "expiry"} :
                    a.data.obj[f].st = "wrong"

C5_SessionGating ==
    [][ last'.op = "Request" =>
            /\ last'.renewal <=> (now >= session.Expiry)
            /\ ~last'.renewal => SessionRequests(last') = <<>>
            /\ last'.renewal =>
                  (Len(SessionRequests(last')) = 1 \/ last'.err = NewRequestErr)
            /\ RenewalFailed(last') =>
                  /\ CallerRequests(last') = <<>>
                  /\ last'.err # NoErr
                  /\ last'.err \in RenewalFailures \cup {PayloadErr} ]_vars

\* a request made at the very instant a stored session expires, the renewal
\* being refused
C5_Witness ==
    /\ last.op = "Request"
    /\ session.Token # ""
    /\ now = session.Expiry
    /\ last.renewal
    /\ RenewalFailed(last)
    /\ Len(last.sent) = 1
    /\ last.err = FailedErr

(***************************************************************************)
(* C6  Session persistence: when Request() finds the session expired and   *)
(* the renewal succeeds, the stored session becomes the session the        *)
(* renewal returned.                                                       *)
(***************************************************************************)
C6_SessionPersistence ==
    [][ (last'.op = "Request" /\ last'.renewal /\ ~RenewalFailed(last')) =>
            session' = UnmarshalSession(SessionRequests(last')[1].answer.data,
                                        session).session ]_vars

(***************************************************************************)
(* C7  Failure atomicity: whenever Next() or GetData() returns an error,   *)
(* offset and the cache are what they were before the call.                *)
(***************************************************************************)
C7_FailureAtomicity ==
    [][ (IsFetch(last') /\ last'.err # NoErr) =>
            (offset' = offset /\ cache' = cache) ]_vars

\* a page that decoded in part, returned with the decode error, not cached
C7_Witness ==
    /\ last.op = "Next"
    /\ last.err = PayloadErr
    /\ Len(last.data) > 0
    /\ cache = EmptyCache
    /\ offset = 0

(***************************************************************************)
(* C8  Cache keys: every cached page is non-empty; a key is created or     *)
(* changed only by a fetch whose request carried that key as its offset    *)
(* and whose answer decodes to the page stored; a fetch that returns no    *)
(* item leaves the cache as it was.                                        *)
(***************************************************************************)
C8_CacheKeys ==
    [][ /\ \A k \in DOMAIN cache' :
            /\ Len(cache'[k]) > 0
            /\ (k \notin DOMAIN cache \/ cache[k] # cache'[k]) =>
                  /\ IsFetch(last')
                  /\ FetchSucceeded(last')
                  /\ Atoi(ListRequests(last')[1].endpoint.query["offset"]) = k
                  /\ FetchedPage(last') = cache'[k]
        /\ (IsFetch(last') /\ FetchSucceeded(last')
                /\ Len(FetchedPage(last')) = 0) => cache' = cache ]_vars

\* the page fetched at offset 0 is cached under 0 after offset moved to 2
C8_Witness ==
    /\ last.op = "Next"
    /\ FetchSucceeded(last)
    /\ Atoi(ListRequests(last)[1].endpoint.query["offset"]) = 0
    /\ offset = 2
    /\ DOMAIN cache = {0}
    /\ cache[0] = FetchedPage(last)

(***************************************************************************)
(* C9  A renewal that fails by a transport error, an undecodable           *)
(* envelope, success=false or a non-empty err leaves the stored session    *)
(* (token, issue time, subject, expiry) as it was.                         *)
(***************************************************************************)
C9_RenewalFailureKeepsSession ==
    [][ (last'.op \in {"UpdateSession", "Request"} /\ last'.renewal
            /\ last'.err \in RenewalFailures /\ CallerRequests(last') = <<>>) =>
            session' = session ]_vars

\* a refused renewal whose envelope carried another session, after a
\* session was stored
C9_Witness ==
    /\ last.op = "UpdateSession"
    /\ last.err = FailedErr
    /\ SessionRequests(last)[1].answer.data.kind = "object"
    /\ session.Token = "t1"
    /\ session.Expiry > 0

(***************************************************************************)
(* C10  As claimed: GetData() on a cache miss stores and returns the       *)
(* fetched page without advancing offset.                                  *)
(***************************************************************************)
C10_GetDataDoesNotAdvance ==
    [][ (last'.op = "GetData" /\ offset \notin DOMAIN cache) =>
            offset' = offset ]_vars

(***************************************************************************)
(* C10 amended: GetData() on a cache miss fetches the page at the current  *)
(* offset O as Next() does: when the fetch returns N >= 1 items it stores  *)
(* them under O, returns them and advances offset to O+N; when the call    *)
(* returns an error, offset and the cache are unchanged.  On a hit offset  *)
(* is unchanged.                                                           *)
(***************************************************************************)
C10_GetDataMissAdvances ==
    [][ last'.op = "GetData" =>
            /\ offset \in DOMAIN cache => offset' = offset
            /\ (offset \notin DOMAIN cache /\ last'.err = NoErr) =>
                  /\ FetchSucceeded(last')
                  /\ Atoi(ListRequests(last')[1].endpoint.query["offset"]) = offset
                  /\ Len(last'.data) >= 1
                  /\ last'.data = FetchedPage(last')
                  /\ cache' = MapStore(cache, offset, last'.data)
                  /\ offset' = offset + Len(last'.data)
            /\ (offset \notin DOMAIN cache /\ last'.err # NoErr) =>
                  (offset' = offset /\ cache' = cache) ]_vars

\* a miss at offset 0 that returned two items and left offset at 2
C10_Witness ==
    /\ last.op = "GetData"
    /\ last.err = NoErr
    /\ FetchSucceeded(last)
    /\ Len(last.data) = 2
    /\ offset = 2
    /\ DOMAIN cache = {0}
    /\ cache[0] = last.data

(***************************************************************************)
(* C11  Bearer token: every caller request that Request() hands to the     *)
(* transport carries Authorization: Bearer <token>, the token being that   *)
(* of the session in effect after the session check, and that session is   *)
(* not expired (now < expiry) and has a non-empty token; so it is after    *)
(* every renewal that returned success.                                    *)
(***************************************************************************)
\* The session the copy of the BucketDB holds once the session check of the
\* observed call is over, the stored session being s
SessionInEffect(obs, s) ==
    IF obs.renewal /\ SessionRequests(obs) # <<>>
    THEN UnmarshalSession(SessionRequests(obs)[1].answer.data, s).session
    ELSE s

C11_BearerToken ==
    [][ last'.op = "Request" =>
          \A i \in DOMAIN CallerRequests(last') :
            /\ SessionInEffect(last', session).Token # ""
            /\ now < SessionInEffect(last', session).Expiry
            /\ CallerRequests(last')[i].authorization =
                  <<"Bearer", SessionInEffect(last', session).Token>> ]_vars

(***************************************************************************)
(* C13  Parameter clone: a Next() or GetData() leaves the fixed parameter  *)
(* set held by the seeker as it was; in particular the set gains no limit  *)
(* or offset entry.                                                        *)
(***************************************************************************)
C13_ParamsUnchanged ==
    [][ IsFetch(last') =>
            /\ params' = params
            /\ \A k \in {"limit", "offset"} :
                  k \in DOMAIN params'.m => k \in DOMAIN params.m ]_vars

(***************************************************************************)
(* C14  Frame of the configuration operations: Seek(o) changes only        *)
(* offset; Clear() empties the cache and leaves offset, limit and params;  *)
(* SetLimit(n) changes only limit and leaves offset and every cached       *)
(* window; SetParams(p) changes only the fixed parameter set.  None of     *)
(* them sends a request, and none touches the session.                     *)
(***************************************************************************)
C14_ConfigurationFrame ==
    [][ /\ last'.op = "Seek" =>
              /\ offset' \in SeekChoices
              /\ UNCHANGED <<cache, limit, params>>
        /\ last'.op = "Clear" =>
              /\ cache' = EmptyCache
              /\ UNCHANGED <<offset, limit, params>>
        /\ last'.op = "SetLimit" =>
              /\ limit' \in LimitChoices
              /\ UNCHANGED <<offset, cache, params>>
        /\ last'.op = "SetParams" =>
              /\ params' \in ParamsChoices
              /\ UNCHANGED <<offset, cache, limit>>
        /\ last'.op \in {"Seek", "Clear", "SetLimit", "SetParams"} =>
              /\ last'.sent = <<>>
              /\ last'.err = NoErr
              /\ UNCHANGED <<session, lastFetched>> ]_vars

\* a Seek back to 0 that kept the window cached under 0 and the limit set
\* before it
C14_Witness ==
    /\ last.op = "Seek"
    /\ offset = 0
    /\ DOMAIN cache = {0}
    /\ limit = 2
    /\ ~params.isNil

(***************************************************************************)
(* C17  Page-boundary alignment: with a limit L >= 1, an offset O >= 0     *)
(* and a server that returns N items, N at most the limit it was sent, a   *)
(* fetch at O satisfies O+N <= (floor(O/L)+1)*L; a fetch that returns the  *)
(* full count it asked for leaves offset on a multiple of L; and a fetch   *)
(* at a multiple of L sends limit=L.                                       *)
(***************************************************************************)
\* The limit the list request of the observation carried
SentLimit(obs) == Atoi(ListRequests(obs)[1].endpoint.query["limit"])

SentOffset(obs) == Atoi(ListRequests(obs)[1].endpoint.query["offset"])

C18_ExhaustionNotSticky ==
    [][ /\ (last'.op = "Next" /\ last'.err = ExhaustedErr) =>
              UNCHANGED <<offset, limit, cache>>
        /\ (last.op = "Next" /\ last.err = ExhaustedErr /\ last'.op = "Next") =>
              /\ ListRequests(last') = <<>> =>
                    (last'.renewal /\ RenewalFailed(last'))
              /\ ListRequests(last') # <<>> =>
                    /\ Len(ListRequests(last')) = 1
                    /\ SentOffset(last') = SentOffset(last)
                    /\ SentOffset(last') = offset
                    /\ SentLimit(last') = SentLimit(last)
                    /\ (FetchSucceeded(last')
                          /\ Len(FetchedPage(last')) >= 1) =>
                          /\ last'.err = NoErr
                          /\ last'.data = FetchedPage(last')
                          /\ cache' = MapStore(cache, offset, FetchedPage(last'))
                          /\ offset' = offset + Len(FetchedPage(last')) ]_vars

\* right after a Next() that returned Exhausted at offset 0, a Next() that
\* is answered with two items can follow and leave offset at 2
C18_Witness ==
    /\ last.op = "Next"
    /\ last.err = ExhaustedErr
    /\ offset = 0
    /\ cache = EmptyCache
    /\ ENABLED ( /\ Next
                 /\ last'.err = NoErr
                 /\ Len(last'.data) = 2
                 /\ offset' = 2
                 /\ DOMAIN cache' = {0} )

(***************************************************************************)
(* C19  Error trace: every error the pipeline originates (a transport      *)
(* error, an envelope decode error, a server error with success=false or   *)
(* with a non-empty err) is appended to the trace list before it is        *)
(* returned, and the list only grows.                                      *)
(***************************************************************************)
\* The errors the pipeline originates
PipelineErrors == {DoErr, ReadAllErr, EnvelopeErr, FailedErr, SoftErr}

C19_ErrorTrace ==
    [][ /\ Len(traceback') >= Len(traceback)
        /\ SubSeq(traceback', 1, Len(traceback)) = traceback
        /\ (last'.op \in {"Request", "UpdateSession"}
              /\ last'.err \in PipelineErrors) =>
              /\ Len(traceback') > Len(traceback)
              /\ traceback'[Len(traceback')] = last'.err ]_vars

(***************************************************************************)
(* C12  Concurrent fetches: whatever the interleaving of the goroutines'   *)
(* request, cache-write and offset-advance steps, every cache write        *)
(* stores the page under the offset that the request which produced it     *)
(* carried; so two goroutines that both fetched at offset O both write     *)
(* key O.                                                                  *)
(***************************************************************************)
\* The offset goroutine t sent in the request it built
SentByThread(t) == Atoi(threads[t].q["offset"])

C12_StoredUnderSentOffset ==
    [][ \A t \in Threads :
          (At(t, "load_store") /\ threads'[t].pc = "next_read") =>
              cache' = MapStore(cache, SentByThread(t), threads[t].result) ]_vars

(***************************************************************************)
(* C15  Lock discipline: a goroutine never holds the cache lock while it   *)
(* builds, sends or decodes a request, or while it advances offset; a      *)
(* goroutine outside a call holds no lock (every acquisition is released   *)
(* before GetData or Next returns, whether by a hit, a miss, an error or   *)
(* an empty page); and whenever a goroutine waits for the lock, its        *)
(* holder is at a cache access, never in a network call or waiting         *)
(* itself, and can take the step that releases it: no interleaving         *)
(* deadlocks.                                                              *)
(***************************************************************************)
LockWaits  == {"getdata_lock", "load_lock"}
LockedPlaces == {"getdata_lookup", "load_store"}

C15_LockDiscipline ==
    /\ mu \in Threads \cup {Unlocked}
    /\ \A t \in Threads :
          /\ mu = t <=> threads[t].pc \in LockedPlaces
          /\ threads[t].pc \in {"idle", "load_params", "load_request",
                                "next_read", "next_write"} => mu # t
          /\ (threads[t].pc \in LockWaits /\ mu # Unlocked) =>
                /\ mu # t
                /\ threads[mu].pc \in LockedPlaces
                /\ ENABLED ( /\ GetData_Lookup(mu) \/ loadData_Store(mu)
                             /\ mu' = Unlocked )
          /\ (threads[t].pc \in LockWaits /\ mu = Unlocked) =>
                ENABLED (GetData_Lock(t) \/ loadData_Lock(t))

\* goroutine 1 holds the lock at its cache write, with a page to store,
\* while goroutine 2 is inside its network call without the lock
C15_Witness ==
    /\ threads[1].pc = "load_store"
    /\ mu = 1
    /\ threads[2].pc = "load_request"
    /\ Len(threads[1].result) > 0

(***************************************************************************)
(* C16  Cache exclusion: no two goroutines are at an access to the window  *)
(* cache at the same time when one of them writes it, and every access to  *)
(* the cache (the lookup in GetData, the store in loadData, the reset in   *)
(* Clear) is made by the goroutine that holds the seeker's lock.           *)
(***************************************************************************)
CacheReads  == {"getdata_lookup"}
CacheWrites == {"load_store", "clear_reset"}

C16_CacheExclusion ==
    /\ \A t \in Threads :
          threads[t].pc \in CacheReads \cup CacheWrites => mu = t
    /\ \A t1, t2 \in Threads :
          (t1 # t2 /\ threads[t1].pc \in CacheWrites) =>
              threads[t2].pc \notin CacheReads \cup CacheWrites

====
